---- MODULE Spec2Model ----
(***************************************************************************)
(* Model of the correlation page of hyperDN (src/unnamed/part_000):        *)
(* fetchCandles, computeReturns, pearsonCorr, fetchCorrMatrix and the      *)
(* CorrPage effect (cache read, loadData, cache write).                    *)
(*                                                                         *)
(* JavaScript values that may be undefined are sequences of length 0 or 1  *)
(* (Undefined, Val(v)).  Numbers parsed from the provider's strings are    *)
(* naturals.  A return is an exact rational or a non-finite double (a      *)
(* division by a zero close), and a correlation is the exact real number   *)
(* scale * sgn * sqrt(p / q).                                              *)
(***************************************************************************)
EXTENDS Integers, Sequences, FiniteSets, TLC

VARIABLES
  slot,          \* localStorage['hyperCorrCache_v1']: Undefined or Val(payload)
  now,           \* Date.now() read by the effect (line 147)
  corrMatrix,    \* React state corrMatrix
  sortedAssets,  \* React state sortedAssets
  loading,       \* React state loading
  error,         \* React state error
  pc,            \* position of the effect / loadData
  issued,        \* network requests issued by this page load
  assets,        \* the argument of fetchCorrMatrix (activeAssets)
  fetchState,    \* per asset name: state of its promise in the fan-out
  returnsMap,    \* fetchCorrMatrix's returnsMap (keys are added as fetches resolve)
  fullMatrix,    \* fetchCorrMatrix's fullMatrix, Undefined until the pairwise pass
  result,        \* value fetchCorrMatrix resolved with, Undefined before
  aborted,       \* fetchCorrMatrix took its catch branch
  loads,         \* number of page loads so far
  closesA,       \* inputs and output of the pure check of
  closesB,       \*   computeReturns and pearsonCorr
  cell

vars == <<slot, now, corrMatrix, sortedAssets, loading, error, pc, issued,
          assets, fetchState, returnsMap, fullMatrix, result, aborted, loads,
          closesA, closesB, cell>>

pageVars == <<slot, now, corrMatrix, sortedAssets, loading, error, issued, loads>>
runVars == <<pc, assets, fetchState, returnsMap, fullMatrix, result, aborted>>
pureVars == <<closesA, closesB, cell>>

----------------------------------------------------------------------------
(* Bounds *)

MaxUniverse == 4       \* entries in the provider's universe (lifecycle)
MaxCandles == 6        \* candles in one history response
MaxLoads == 2          \* page loads in one behaviour
MaxCloses == 6         \* closes of one series in the pure check
MaxBuildUniverse == 8  \* entries in the universe for the check of the matrix pass

(* Program constants *)

FreshnessWindow == 604800000   \* line 153
MinOverlap == 5                \* line 74

----------------------------------------------------------------------------
(* JavaScript values *)

Undefined == <<>>
Val(v) == <<v>>
IsDef(o) == o # <<>>
Get(o) == o[1]

Min(a, b) == IF a <= b THEN a ELSE b
Abs(a) == IF a < 0 THEN -a ELSE a

RECURSIVE Gcd(_, _)
Gcd(a, b) == IF b = 0 THEN a ELSE Gcd(b, a % b)

Lcm(a, b) == (a \div Gcd(a, b)) * b

RECURSIVE SumSeq(_)
SumSeq(s) == IF s = <<>> THEN 0 ELSE Head(s) + SumSeq(Tail(s))

RECURSIVE LcmSeq(_)
LcmSeq(s) == IF s = <<>> THEN 1 ELSE Lcm(Head(s), LcmSeq(Tail(s)))

(* A double: kind "fin" is the rational n / d (d > 0, reduced); "inf" and  *)
(* "nan" are the results of dividing by a zero close.                      *)
Fin(n, d) == [kind |-> "fin", n |-> n \div Gcd(Abs(n), d), d |-> d \div Gcd(Abs(n), d)]
Inf == [kind |-> "inf", n |-> 0, d |-> 1]
NaN == [kind |-> "nan", n |-> 0, d |-> 1]

(* (close - prev) / prev in IEEE arithmetic, for closes >= 0 *)
Ratio(close, prev) ==
  IF prev # 0 THEN Fin(close - prev, prev)
  ELSE IF close # 0 THEN Inf ELSE NaN

(* The real number scale * sgn * sqrt(p / q), p / q reduced; zero is unique *)
Zero == [sgn |-> 0, p |-> 0, q |-> 1, scale |-> 1]
Root(num, dd) ==
  IF num = 0 THEN Zero
  ELSE [sgn |-> IF num > 0 THEN 1 ELSE -1,
        p |-> (num * num) \div Gcd(num * num, dd),
        q |-> dd \div Gcd(num * num, dd),
        scale |-> 1]
NaNCorr == [sgn |-> 0, p |-> 0, q |-> 0, scale |-> 1]
Times(c, k) == IF c.sgn = 0 THEN c ELSE [c EXCEPT !.scale = k * @]

----------------------------------------------------------------------------
(* computeReturns, lines 66-69 *)

computeReturns(closes) ==
  IF Len(closes) < 2 THEN <<>>
  ELSE [i \in 1..(Len(closes) - 1) |-> Ratio(closes[i + 1], closes[i])]

(* pearsonCorr, lines 72-85 *)

(* Array.prototype.slice(0, n) clamps n to the length *)
Slice(s, n) == SubSeq(s, 1, Min(n, Len(s)))

AllFinite(s) == \A i \in 1..Len(s) : s[i].kind = "fin"

(* The series n * D * (r - mean) as integers, where mean is the sum over   *)
(* n (lines 78-79) and D the common denominator of the slice: the centred  *)
(* series of lines 80-82 up to the positive factor n * D, which cancels    *)
(* in num / (denA * denB).                                                 *)
Centred(s, n) ==
  LET D == LcmSeq([i \in 1..Len(s) |-> s[i].d])
      up == [i \in 1..Len(s) |-> s[i].n * (D \div s[i].d)]
      total == SumSeq(up)
  IN [i \in 1..Len(s) |-> n * up[i] - total]

SumSquares(c) == SumSeq([i \in 1..Len(c) |-> c[i] * c[i]])
SumProducts(c, e) == SumSeq([i \in 1..Len(c) |-> c[i] * e[i]])

(* denA (denB) is truthy, line 83: a non-finite return in the slice makes  *)
(* the mean infinite or NaN, so that r - mean is NaN for that return and   *)
(* the denominator is NaN, which is falsy, as is the 0 of a constant       *)
(* series.                                                                 *)
Truthy(s, n) == AllFinite(s) /\ SumSquares(Centred(s, n)) # 0

(* num / (denA * denB) for truthy denominators; bSlice[i] is undefined     *)
(* past the end of bSlice and the sum is then NaN.                         *)
Quotient(aSlice, bSlice, n) ==
  IF Len(bSlice) < Len(aSlice) THEN NaNCorr
  ELSE Root(SumProducts(Centred(aSlice, n), Centred(bSlice, n)),
            SumSquares(Centred(aSlice, n)) * SumSquares(Centred(bSlice, n)))

MinLenFirst(returnsA, returnsB) == Len(returnsA)
MinLen(returnsA, returnsB) == Min(Len(returnsA), Len(returnsB))

LowDataGuardOffByOne(minLen) == minLen < MinOverlap - 1
LowDataGuard(minLen) == minLen < MinOverlap

pearsonCorr(returnsA, returnsB) ==
  LET minLen == MinLen(returnsA, returnsB)
      aSlice == Slice(returnsA, minLen)
      bSlice == Slice(returnsB, minLen)
  IN IF LowDataGuard(minLen) THEN [corr |-> Zero, isLowData |-> TRUE]
     ELSE [corr |-> IF Truthy(aSlice, minLen) /\ Truthy(bSlice, minLen)
                    THEN Quotient(aSlice, bSlice, minLen)
                    ELSE Zero,
           isLowData |-> FALSE]

----------------------------------------------------------------------------
(* The Market Data Provider *)

Names == <<"BTC", "ETH", "SOL", "ARB", "DOGE", "XRP", "AVAX", "LINK", "OP", "SUI">>

(* The context of the i-th entry of the universe: open interest 2, 1, 0,   *)
(* 2, 1, 0, ... and mark price 2, 1, 2, 1, ...                             *)
OpenInterestOf(i) == (2 * i) % 3
MarkPxOf(i) == 1 + (i % 2)

(* metaAndAssetCtxs with k universe entries and c contexts, lines 34-35 *)
UniverseResponse(k, c) ==
  [universe |-> [i \in 1..k |-> [name |-> Names[i]]],
   assetCtxs |-> [i \in 1..c |-> [openInterest |-> OpenInterestOf(i),
                                   markPx |-> MarkPxOf(i)]]]

UniverseResponses(maxEntries) ==
  {UniverseResponse(k, c) : k \in 0..maxEntries, c \in 0..maxEntries}

(* The close of the candle at day t of a history: 1 alternates 1, 2, ...;  *)
(* 2 is flat; 3 alternates and has no close at day 2.                      *)
Patterns == {1, 2, 3}
PatternClose(p, t) ==
  IF p = 2 THEN Val(1)
  ELSE IF p = 3 /\ t = 2 THEN Undefined
  ELSE IF t % 2 = 1 THEN Val(1) ELSE Val(2)

(* A candleSnapshot body: not an array, or n candles, latest first *)
NonArrayBody == [isArray |-> FALSE, candles |-> <<>>]
ArrayBody(n, p) ==
  [isArray |-> TRUE,
   candles |-> [i \in 1..n |-> [t |-> n + 1 - i, c |-> PatternClose(p, n + 1 - i)]]]

CandleCounts == {0, MinOverlap, MaxCandles}
CandleBodies ==
  {NonArrayBody} \cup {ArrayBody(n, p) : n \in CandleCounts, p \in Patterns}

----------------------------------------------------------------------------
(* fetchCandles after a successful response, lines 55-62 *)

(* candles.sort by t, a stable sort: insertion after the candles whose t   *)
(* is not greater                                                          *)
RECURSIVE InsertByT(_, _)
InsertByT(sorted, candle) ==
  IF sorted = <<>> THEN <<candle>>
  ELSE IF Head(sorted).t <= candle.t
       THEN <<Head(sorted)>> \o InsertByT(Tail(sorted), candle)
       ELSE <<candle>> \o sorted

RECURSIVE SortByT(_)
SortByT(candles) ==
  IF candles = <<>> THEN <<>>
  ELSE InsertByT(SortByT(SubSeq(candles, 1, Len(candles) - 1)), candles[Len(candles)])

(* parseFloat(candle.c || '0') *)
CloseOf(candle) == IF IsDef(candle.c) THEN Get(candle.c) ELSE 0

fetchCandlesBody(body) ==
  LET candles == IF body.isArray THEN body.candles ELSE <<>>
  IN IF Len(candles) = 0 THEN <<>>
     ELSE LET sorted == SortByT(candles)
          IN [i \in 1..Len(sorted) |-> CloseOf(sorted[i])]

----------------------------------------------------------------------------
(* loadData's activeAssets, lines 175-186 *)

RECURSIVE ActiveFrom(_, _)
ActiveFrom(data, i) ==
  IF i > Len(data.universe) THEN <<>>
  ELSE LET ctx == IF i <= Len(data.assetCtxs) THEN data.assetCtxs[i]
                  ELSE [openInterest |-> 0, markPx |-> 0]
       IN (IF ctx.openInterest <= 0 THEN <<>>
           ELSE <<[name |-> data.universe[i].name,
                   openInterest |-> ctx.openInterest,
                   currentPrice |-> ctx.markPx,
                   assetIndex |-> i - 1]>>)
          \o ActiveFrom(data, i + 1)

ActiveAssets(data) == ActiveFrom(data, 1)

NamesOf(as) == {as[i].name : i \in 1..Len(as)}

----------------------------------------------------------------------------
(* fetchCorrMatrix after the fan-in, lines 98-133 *)

EmptyMatrix == [a \in {} |-> [b \in {} |-> [corr |-> Zero, lowData |-> TRUE]]]
EmptyResult == [matrix |-> EmptyMatrix, sortedAssets |-> <<>>]

(* lines 102-103 *)
CellOf(returnsA, returnsB) ==
  LET r == pearsonCorr(returnsA, returnsB)
  IN [corr |-> Times(r.corr, 100), lowData |-> r.isLowData]

(* lines 98-105, every series present *)
FullMatrix(as, rm) ==
  [a \in NamesOf(as) |-> [b \in NamesOf(as) |-> CellOf(rm[a], rm[b])]]

(* lines 98-105 when a series is missing: pearsonCorr reads the length of  *)
(* undefined and throws in the first row, at the first asset without a     *)
(* series; the cells before it have been stored.                           *)
FirstMissing(as, rm) ==
  CHOOSE j \in 1..Len(as) :
    /\ as[j].name \notin DOMAIN rm
    /\ \A i \in 1..(j - 1) : as[i].name \in DOMAIN rm

PartialMatrix(as, rm) ==
  LET done == IF as[1].name \in DOMAIN rm
              THEN {as[j].name : j \in 1..(FirstMissing(as, rm) - 1)}
              ELSE {}
  IN [a \in {as[1].name} |-> [b \in done |-> CellOf(rm[a], rm[b])]]

(* line 111: lowDataCells / totalCells <= 0.8, as 10 * low <= 8 * total *)
KeepRowAlways(lowDataCells, totalCells) == TRUE
KeepRowStrict(lowDataCells, totalCells) == 10 * lowDataCells < 8 * totalCells
KeepRow(lowDataCells, totalCells) == 10 * lowDataCells <= 8 * totalCells

LowDataCells(as, full, a) ==
  Cardinality({j \in 1..Len(as) : full[a][as[j].name].lowData})

(* lines 108-112 *)
ValidAssets(as, full) ==
  SelectSeq(as, LAMBDA assetA : KeepRow(LowDataCells(as, full, assetA.name), Len(as)))

(* lines 115-121 *)
SlimMatrixAllColumns(valid, full) ==
  [a \in NamesOf(valid) |-> [b \in DOMAIN full |-> full[a][b]]]
SlimMatrix(valid, full) ==
  [a \in NamesOf(valid) |-> [b \in NamesOf(valid) |-> full[a][b]]]

(* lines 123-127: a stable sort with comparator volB - volA *)
VolumeOpenInterestOnly(asset) == asset.openInterest
Volume(asset) == asset.openInterest * asset.currentPrice

RECURSIVE InsertByVolume(_, _)
InsertByVolume(sorted, asset) ==
  IF sorted = <<>> THEN <<asset>>
  ELSE IF Volume(Head(sorted)) >= Volume(asset)
       THEN <<Head(sorted)>> \o InsertByVolume(Tail(sorted), asset)
       ELSE <<asset>> \o sorted

RECURSIVE SortByVolume(_)
SortByVolume(as) ==
  IF as = <<>> THEN <<>>
  ELSE InsertByVolume(SortByVolume(SubSeq(as, 1, Len(as) - 1)), as[Len(as)])

(* lines 130-133: the value of the catch branch *)
AbortResultPartial(as, rm) ==
  LET have == SelectSeq(as, LAMBDA asset : asset.name \in DOMAIN rm)
  IN [matrix |-> FullMatrix(have, rm), sortedAssets |-> SortByVolume(have)]
AbortResult(as, rm) == EmptyResult

(* The synchronous pass: what it leaves in fullMatrix, what fetchCorrMatrix *)
(* resolves with, and whether the catch branch (lines 130-133) was taken.  *)
CorrPass(as, rm) ==
  IF NamesOf(as) \subseteq DOMAIN rm
  THEN LET full == FullMatrix(as, rm)
           valid == ValidAssets(as, full)
       IN [fullMatrix |-> Val(full),
           result |-> [matrix |-> SlimMatrix(valid, full),
                       sortedAssets |-> SortByVolume(valid)],
           aborted |-> FALSE]
  ELSE [fullMatrix |-> Val(PartialMatrix(as, rm)),
        result |-> AbortResult(as, rm),
        aborted |-> TRUE]

----------------------------------------------------------------------------
(* The cache slot, lines 145-167 and 193-199 *)

(* The stored string, not empty: "garbage" is a text that JSON.parse or    *)
(* the destructuring of its value rejects, "object" a JSON value whose     *)
(* timestamp and data fields are as given (a timestamp that is not a       *)
(* number and a falsy data behave as missing ones).                        *)
Garbage == [text |-> "garbage", timestamp |-> Undefined, data |-> Undefined]
Payload(timestamp, data) == [text |-> "object", timestamp |-> timestamp, data |-> data]

(* JSON.stringify writes a NaN as null *)
NullCorr == [sgn |-> 0, p |-> 0, q |-> 0, scale |-> 0]
JsonCell(c) == IF c.corr.q = 0 THEN [c EXCEPT !.corr = NullCorr] ELSE c
JsonMatrix(m) == [a \in DOMAIN m |-> [b \in DOMAIN m[a] |-> JsonCell(m[a][b])]]

(* lines 193-199 *)
CacheEntry(timestamp, matrix, sorted) ==
  Payload(Val(timestamp),
          Val([matrix |-> Val(JsonMatrix(matrix)), sortedAssets |-> Val(sorted)]))

(* line 153 *)
Fresh(payload, t) ==
  /\ IsDef(payload.data)
  /\ IsDef(payload.timestamp)
  /\ t - Get(payload.timestamp) < FreshnessWindow

(* lines 149 and 151-153: the effect uses the cache *)
CacheHit(s, t) == IsDef(s) /\ Get(s).text = "object" /\ Fresh(Get(s), t)

(* lines 160 and 165: the slot after the read *)
SlotAfterReadCleared(s, t) == Undefined
SlotAfterRead(s, t) == IF IsDef(s) /\ ~CacheHit(s, t) THEN Undefined ELSE s

----------------------------------------------------------------------------
(* What the slot may hold when the page is first loaded *)

SampleAssets == ActiveAssets(UniverseResponse(2, 2))
SampleReturns ==
  [n \in NamesOf(SampleAssets) |->
     computeReturns(fetchCandlesBody(ArrayBody(MaxCandles, IF n = "BTC" THEN 1 ELSE 3)))]
SampleResult == CorrPass(SampleAssets, SampleReturns).result

StoredResults == {EmptyResult, SampleResult}
Ages == {0, FreshnessWindow - 1, FreshnessWindow, FreshnessWindow + 1}
FirstNow == FreshnessWindow + 1
Advances == {1, FreshnessWindow}

InitialSlots ==
  {Undefined, Val(Garbage)}
  \cup {Val(CacheEntry(FirstNow - age, r.matrix, r.sortedAssets)) :
          age \in Ages, r \in StoredResults}
  \cup {Val(Payload(Undefined, Val([matrix |-> Val(SampleResult.matrix),
                                    sortedAssets |-> Val(SampleResult.sortedAssets)]))),
        Val(Payload(Val(FirstNow - 1), Undefined)),
        Val(Payload(Val(FirstNow - 1),
                    Val([matrix |-> Undefined,
                         sortedAssets |-> Val(SampleResult.sortedAssets)]))),
        Val(Payload(Val(FirstNow - 1),
                    Val([matrix |-> Val(SampleResult.matrix),
                         sortedAssets |-> Undefined])))}

----------------------------------------------------------------------------
(* The page: CorrPage, lines 137-210 *)

LoadError == "Failed to load correlation data. Try again?"
NoReturns == [n \in {} |-> <<>>]
NoFetches == [n \in {} |-> "pending"]

(* The state of a freshly mounted component, lines 138-141 *)
Mounted ==
  /\ corrMatrix = Val(EmptyMatrix)
  /\ sortedAssets = Val(<<>>)
  /\ loading = TRUE
  /\ error = ""
  /\ pc = "mount"
  /\ issued = {}
  /\ assets = <<>>
  /\ fetchState = NoFetches
  /\ returnsMap = NoReturns
  /\ fullMatrix = Undefined
  /\ result = Undefined
  /\ aborted = FALSE

PureIdle == closesA = <<>> /\ closesB = <<>> /\ cell = Undefined

Init ==
  /\ slot \in InitialSlots
  /\ now = FirstNow
  /\ loads = 1
  /\ Mounted
  /\ PureIdle

(* The effect up to its first suspension, lines 143-174: the cache read,   *)
(* then either the cached data is shown or loadData issues the universe    *)
(* request.                                                                *)
Mount ==
  /\ pc = "mount"
  /\ slot' = SlotAfterRead(slot, now)
  /\ IF CacheHit(slot, now)
     THEN /\ corrMatrix' = Get(Get(slot).data).matrix
          /\ sortedAssets' = Get(Get(slot).data).sortedAssets
          /\ loading' = FALSE
          /\ pc' = "done"
          /\ UNCHANGED <<error, issued>>
     ELSE /\ loading' = TRUE
          /\ error' = ""
          /\ issued' = {"universe"}
          /\ pc' = "universe"
          /\ UNCHANGED <<corrMatrix, sortedAssets>>
  /\ UNCHANGED <<now, loads, assets, fetchState, returnsMap, fullMatrix, result, aborted>>
  /\ UNCHANGED pureVars

(* fetchHyperliquidData rejects or throws (lines 28-35): loadData's catch  *)
(* and finally, lines 201-206.                                             *)
UniverseFails ==
  /\ pc = "universe"
  /\ error' = LoadError
  /\ loading' = FALSE
  /\ pc' = "done"
  /\ UNCHANGED <<slot, now, corrMatrix, sortedAssets, issued, loads>>
  /\ UNCHANGED <<assets, fetchState, returnsMap, fullMatrix, result, aborted>>
  /\ UNCHANGED pureVars

(* fetchHyperliquidData resolves: lines 175-188 and 89-96, up to the       *)
(* await of Promise.all; every history request is issued.                  *)
UniverseArrives(data) ==
  /\ pc = "universe"
  /\ assets' = ActiveAssets(data)
  /\ fetchState' = [n \in NamesOf(assets') |-> "pending"]
  /\ issued' = issued \cup NamesOf(assets')
  /\ returnsMap' = NoReturns
  /\ pc' = "fanout"
  /\ UNCHANGED <<slot, now, corrMatrix, sortedAssets, loading, error, loads>>
  /\ UNCHANGED <<fullMatrix, result, aborted>>
  /\ UNCHANGED pureVars

(* returnsMap[asset.name] = computeReturns(closes), line 93 *)
Store(rm, n, closes) ==
  [x \in DOMAIN rm \cup {n} |-> IF x = n THEN computeReturns(closes) ELSE rm[x]]

(* One asset's callback (lines 91-95) resolves with the closes fetchCandles *)
(* returned.                                                               *)
Resolves(n, outcome, closes) ==
  /\ n \in DOMAIN fetchState
  /\ fetchState[n] = "pending"
  /\ fetchState' = [fetchState EXCEPT ![n] = outcome]
  /\ returnsMap' = Store(returnsMap, n, closes)
  /\ UNCHANGED pageVars
  /\ UNCHANGED <<pc, assets, fullMatrix, result, aborted>>
  /\ UNCHANGED pureVars

(* The response is not ok, lines 51-54 *)
CandleNotOk(n) == Resolves(n, "notOk", <<>>)

(* The response is ok and its body is read, lines 55-62 *)
CandleArrives(n, body) == Resolves(n, "ok", fetchCandlesBody(body))

(* fetchCandles rejects: the callback's promise rejects, and Promise.all   *)
(* with it if it is still awaited (line 96), so that fetchCorrMatrix       *)
(* resolves from its catch, lines 130-133.                                 *)
Rejects(n, outcome) ==
  /\ n \in DOMAIN fetchState
  /\ fetchState[n] = "pending"
  /\ fetchState' = [fetchState EXCEPT ![n] = outcome]
  /\ IF pc = "fanout"
     THEN /\ result' = Val(AbortResult(assets, returnsMap))
          /\ aborted' = TRUE
          /\ pc' = "returned"
     ELSE UNCHANGED <<result, aborted, pc>>
  /\ UNCHANGED pageVars
  /\ UNCHANGED <<assets, returnsMap, fullMatrix>>
  /\ UNCHANGED pureVars

(* fetch rejects, line 43 *)
CandleRequestFails(n) == Rejects(n, "rejected")

(* response.json() rejects, line 55 *)
CandleBodyUnreadable(n) == Rejects(n, "unreadable")

(* Promise.all is fulfilled, line 96 *)
PromiseAnyFulfilled(fs) == \E n \in DOMAIN fs : fs[n] \in {"notOk", "ok"}
PromiseAllFulfilled(fs) == \A n \in DOMAIN fs : fs[n] \in {"notOk", "ok"}

(* fetchCorrMatrix resumes after the fan-in, lines 98-133 *)
FanIn ==
  /\ pc = "fanout"
  /\ PromiseAllFulfilled(fetchState)
  /\ fullMatrix' = CorrPass(assets, returnsMap).fullMatrix
  /\ result' = Val(CorrPass(assets, returnsMap).result)
  /\ aborted' = CorrPass(assets, returnsMap).aborted
  /\ pc' = "returned"
  /\ UNCHANGED pageVars
  /\ UNCHANGED <<assets, fetchState, returnsMap>>
  /\ UNCHANGED pureVars

(* loadData resumes with fetchCorrMatrix's value, lines 188-200 and 205 *)
Resume ==
  /\ pc = "returned"
  /\ corrMatrix' = Val(Get(result).matrix)
  /\ sortedAssets' = Val(Get(result).sortedAssets)
  /\ slot' = Val(CacheEntry(now, Get(result).matrix, Get(result).sortedAssets))
  /\ loading' = FALSE
  /\ pc' = "done"
  /\ UNCHANGED <<now, error, issued, loads>>
  /\ UNCHANGED <<assets, fetchState, returnsMap, fullMatrix, result, aborted>>
  /\ UNCHANGED pureVars

(* The page is loaded again (line 220, or a later visit): the component is *)
(* mounted afresh, the slot persists and time has passed.                  *)
Reload(advance) ==
  /\ pc # "mount"
  /\ loads < MaxLoads
  /\ loads' = loads + 1
  /\ now' = now + advance
  /\ corrMatrix' = Val(EmptyMatrix)
  /\ sortedAssets' = Val(<<>>)
  /\ loading' = TRUE
  /\ error' = ""
  /\ pc' = "mount"
  /\ issued' = {}
  /\ assets' = <<>>
  /\ fetchState' = NoFetches
  /\ returnsMap' = NoReturns
  /\ fullMatrix' = Undefined
  /\ result' = Undefined
  /\ aborted' = FALSE
  /\ UNCHANGED slot
  /\ UNCHANGED pureVars

Next ==
  \/ Mount
  \/ UniverseFails
  \/ \E data \in UniverseResponses(MaxUniverse) : UniverseArrives(data)
  \/ \E n \in DOMAIN fetchState : CandleNotOk(n)
  \/ \E n \in DOMAIN fetchState, body \in CandleBodies : CandleArrives(n, body)
  \/ \E n \in DOMAIN fetchState : CandleRequestFails(n)
  \/ \E n \in DOMAIN fetchState : CandleBodyUnreadable(n)
  \/ FanIn
  \/ Resume
  \/ \E advance \in Advances : Reload(advance)

Spec == Init /\ [][Next]_vars

----------------------------------------------------------------------------
(* The matrix pass on larger universes: the page at the fan-in, every      *)
(* history resolved.                                                       *)

BuildBodies ==
  {ArrayBody(0, 1), ArrayBody(MinOverlap, 1), ArrayBody(MinOverlap + 1, 1),
   ArrayBody(MinOverlap + 1, 3)}

BuildReturns == {computeReturns(fetchCandlesBody(body)) : body \in BuildBodies}

InitBuild ==
  /\ slot = Undefined
  /\ now = FirstNow
  /\ loads = 1
  /\ corrMatrix = Val(EmptyMatrix)
  /\ sortedAssets = Val(<<>>)
  /\ loading = TRUE
  /\ error = ""
  /\ pc = "fanout"
  /\ assets \in {ActiveAssets(UniverseResponse(k, k)) : k \in 0..MaxBuildUniverse}
  /\ issued = {"universe"} \cup NamesOf(assets)
  /\ fetchState = [n \in NamesOf(assets) |-> "ok"]
  /\ returnsMap \in [NamesOf(assets) -> BuildReturns]
  /\ fullMatrix = Undefined
  /\ result = Undefined
  /\ aborted = FALSE
  /\ PureIdle

NextBuild == FanIn \/ Resume

SpecBuild == InitBuild /\ [][NextBuild]_vars

----------------------------------------------------------------------------
(* computeReturns and pearsonCorr on all short series of closes *)

Prices == {1, 2}
CloseSeqs == UNION {[1..n -> Prices] : n \in 0..MaxCloses}

InitCorr ==
  /\ closesA \in CloseSeqs
  /\ closesB \in CloseSeqs
  /\ cell = Undefined
  /\ slot = Undefined
  /\ now = FirstNow
  /\ loads = 1
  /\ Mounted

Correlate ==
  /\ cell = Undefined
  /\ cell' = Val(pearsonCorr(computeReturns(closesA), computeReturns(closesB)))
  /\ UNCHANGED <<closesA, closesB>>
  /\ UNCHANGED pageVars
  /\ UNCHANGED runVars

NextCorr == Correlate

SpecCorr == InitCorr /\ [][NextCorr]_vars

----------------------------------------------------------------------------
(* Properties *)

Failed(n) == fetchState[n] \in {"notOk", "rejected", "unreadable"}
RunFailed == aborted \/ error # ""
Symmetric(m) ==
  \A a \in DOMAIN m : \A b \in DOMAIN m[a] :
    /\ b \in DOMAIN m /\ a \in DOMAIN m[b]
    /\ m[a][b].corr = m[b][a].corr
    /\ m[a][b].lowData = m[b][a].lowData

(* C1: in fetchCorrMatrix the failure of one asset's history fetch, in     *)
(* whatever form (response not ok, request rejected, body unreadable), is  *)
(* represented as an empty series for that asset and never aborts the run. *)
C1_FailureIsolated ==
  \A n \in DOMAIN fetchState :
    Failed(n) => /\ ~aborted
                 /\ n \in DOMAIN returnsMap
                 /\ returnsMap[n] = <<>>

(* C2: when the fan-in raises or the universe fetch fails, the cycle shows *)
(* the empty matrix and the empty ranked list; no run returns or displays  *)
(* a matrix whose keys differ from the names of the ranked list.           *)
C2_NoPartialResult ==
  /\ (pc = "done" /\ RunFailed) =>
       corrMatrix = Val(EmptyMatrix) /\ sortedAssets = Val(<<>>)
  /\ aborted /\ IsDef(result) => Get(result) = EmptyResult
  /\ IsDef(result) =>
       /\ DOMAIN Get(result).matrix = NamesOf(Get(result).sortedAssets)
       /\ \A a \in DOMAIN Get(result).matrix :
            DOMAIN Get(result).matrix[a] = NamesOf(Get(result).sortedAssets)
  /\ issued # {} =>
       /\ IsDef(corrMatrix) /\ IsDef(sortedAssets)
       /\ DOMAIN Get(corrMatrix) = NamesOf(Get(sortedAssets))

C2_Witness ==
  /\ pc = "done"
  /\ aborted
  /\ \E n \in DOMAIN returnsMap : returnsMap[n] # <<>>
  /\ corrMatrix = Val(EmptyMatrix)

(* C3: a cycle that ends in failure (the universe fetch failed, or         *)
(* fetchCorrMatrix aborted) stores no cache entry.                         *)
C3_NoEntryAfterFailure ==
  (pc = "done" /\ RunFailed) => slot = Undefined

(* C4: on page load a stored payload that is unparseable, lacks timestamp, *)
(* data, matrix or sortedAssets, or is older than the freshness window is  *)
(* removed, none of it is displayed, and a fresh computation starts.       *)
InvalidPayload(s, t) ==
  /\ IsDef(s)
  /\ \/ Get(s).text # "object"
     \/ ~IsDef(Get(s).timestamp)
     \/ ~IsDef(Get(s).data)
     \/ IsDef(Get(s).data) /\ ~IsDef(Get(Get(s).data).matrix)
     \/ IsDef(Get(s).data) /\ ~IsDef(Get(Get(s).data).sortedAssets)
     \/ IsDef(Get(s).timestamp) /\ t - Get(Get(s).timestamp) > FreshnessWindow

C4_InvalidIsAbsent ==
  [][(pc = "mount" /\ InvalidPayload(slot, now)) =>
       /\ slot' = Undefined
       /\ corrMatrix' = Val(EmptyMatrix)
       /\ sortedAssets' = Val(<<>>)
       /\ pc' = "universe"]_vars

(* C5: a valid entry inside the freshness window short-circuits the run:   *)
(* nothing is fetched, the slot is left as it is, loading becomes false    *)
(* and the stored matrix and ranked list are displayed.                    *)
ValidFresh(s, t) ==
  /\ IsDef(s)
  /\ Get(s).text = "object"
  /\ IsDef(Get(s).timestamp)
  /\ IsDef(Get(s).data)
  /\ IsDef(Get(Get(s).data).matrix)
  /\ IsDef(Get(Get(s).data).sortedAssets)
  /\ t - Get(Get(s).timestamp) < FreshnessWindow

C5_CacheShortCircuits ==
  [][(pc = "mount" /\ ValidFresh(slot, now)) =>
       /\ slot' = slot
       /\ issued' = {}
       /\ pc' = "done"
       /\ loading' = FALSE
       /\ corrMatrix' = Get(Get(slot).data).matrix
       /\ sortedAssets' = Get(Get(slot).data).sortedAssets]_vars

C5_Witness ==
  /\ pc = "done"
  /\ issued = {}
  /\ ~loading
  /\ IsDef(slot)
  /\ corrMatrix = Val(SampleResult.matrix)
  /\ sortedAssets = Val(SampleResult.sortedAssets)

(* C6: the pairwise pass does not start before every asset's return series *)
(* is resolved, and no cell is computed from an unset series.              *)
C6_PairwiseAfterAll ==
  IsDef(fullMatrix) =>
    /\ \A n \in NamesOf(assets) :
         n \in DOMAIN returnsMap /\ fetchState[n] \in {"notOk", "ok"}
    /\ DOMAIN Get(fullMatrix) = NamesOf(assets)

C6_Witness ==
  /\ IsDef(fullMatrix)
  /\ \E n, m \in DOMAIN fetchState : fetchState[n] = "notOk" /\ fetchState[m] = "ok"

(* C7: every matrix fetchCorrMatrix produces, full or reduced, is          *)
(* symmetric in corr and in lowData.                                       *)
C7_Symmetry ==
  /\ IsDef(fullMatrix) => Symmetric(Get(fullMatrix))
  /\ IsDef(result) => Symmetric(Get(result).matrix)

C7_Witness ==
  /\ IsDef(fullMatrix)
  /\ IsDef(result)
  /\ \E a, b \in DOMAIN Get(result).matrix :
       a # b /\ Get(result).matrix[a][b].corr.sgn # 0
  /\ \E a, b \in DOMAIN Get(fullMatrix) :
       /\ Get(fullMatrix)[a][b].lowData
       /\ Len(returnsMap[a]) >= MinOverlap

(* C8: with n the smaller of the two lengths, pearsonCorr returns corr 0   *)
(* and lowData true when n < 5, and lowData false when n >= 5.             *)
ReturnCount(closes) == IF Len(closes) = 0 THEN 0 ELSE Len(closes) - 1

C8_LowDataThreshold ==
  IsDef(cell) =>
    LET n == Min(ReturnCount(closesA), ReturnCount(closesB))
    IN /\ n < 5 => Get(cell) = [corr |-> Zero, isLowData |-> TRUE]
       /\ n >= 5 => ~Get(cell).isLowData

C8_Witness ==
  /\ IsDef(cell)
  /\ ReturnCount(closesA) = 5
  /\ ReturnCount(closesB) = 5
  /\ ~Get(cell).isLowData
  /\ Get(cell).corr.sgn # 0

(* C9: an asset is dropped if and only if more than 80% of the cells of    *)
(* its row of the full matrix, over all the assets, are lowData.           *)
RowLowData(full, a) == Cardinality({b \in DOMAIN full[a] : full[a][b].lowData})

C9_CoverageFilter ==
  (IsDef(fullMatrix) /\ IsDef(result) /\ ~aborted) =>
    \A i \in 1..Len(assets) :
      (assets[i].name \notin DOMAIN Get(result).matrix)
        <=> (5 * RowLowData(Get(fullMatrix), assets[i].name) > 4 * Len(assets))

C9_Witness ==
  /\ IsDef(fullMatrix) /\ IsDef(result) /\ ~aborted
  /\ \E i \in 1..Len(assets) :
       /\ 5 * RowLowData(Get(fullMatrix), assets[i].name) = 4 * Len(assets)
       /\ assets[i].name \in DOMAIN Get(result).matrix
  /\ \E i \in 1..Len(assets) : assets[i].name \notin DOMAIN Get(result).matrix

(* C10: the reduced matrix is the full matrix restricted to the survivors: *)
(* a cell for every ordered pair of survivors, equal to the full matrix's, *)
(* and no row or column of a dropped asset.                                *)
C10_Restriction ==
  (IsDef(fullMatrix) /\ IsDef(result) /\ ~aborted) =>
    LET m == Get(result).matrix
        survivors == NamesOf(Get(result).sortedAssets)
    IN /\ survivors \subseteq DOMAIN Get(fullMatrix)
       /\ DOMAIN m = survivors
       /\ \A a \in survivors :
            /\ DOMAIN m[a] = survivors
            /\ \A b \in survivors : m[a][b] = Get(fullMatrix)[a][b]

C10_Witness ==
  /\ IsDef(fullMatrix) /\ IsDef(result) /\ ~aborted
  /\ Cardinality(DOMAIN Get(result).matrix) >= 2
  /\ DOMAIN Get(result).matrix # DOMAIN Get(fullMatrix)

(* C11: the ranked list of a successful run is a permutation of the        *)
(* surviving assets in non-increasing order of openInterest * currentPrice, *)
(* and assets with equal products keep their order in the input list.      *)
Position(as, asset) == CHOOSE i \in 1..Len(as) : as[i] = asset

C11_VolumeRanking ==
  (IsDef(fullMatrix) /\ IsDef(result) /\ ~aborted) =>
    LET ranked == Get(result).sortedAssets
        survivors == {i \in 1..Len(assets) : assets[i].name \in DOMAIN Get(result).matrix}
    IN /\ Len(ranked) = Cardinality(survivors)
       /\ {ranked[i] : i \in 1..Len(ranked)} = {assets[i] : i \in survivors}
       /\ \A i, j \in 1..Len(ranked) :
            i < j =>
              /\ ranked[i].openInterest * ranked[i].currentPrice
                   >= ranked[j].openInterest * ranked[j].currentPrice
              /\ ranked[i].openInterest * ranked[i].currentPrice
                   = ranked[j].openInterest * ranked[j].currentPrice
                 => Position(assets, ranked[i]) < Position(assets, ranked[j])

C11_Witness ==
  /\ IsDef(fullMatrix) /\ IsDef(result) /\ ~aborted
  /\ Len(Get(result).sortedAssets) >= 4
  /\ Len(Get(result).sortedAssets) < Len(assets)
  /\ \E i \in 1..(Len(Get(result).sortedAssets) - 1) :
       /\ Get(result).sortedAssets[i].openInterest * Get(result).sortedAssets[i].currentPrice
            = Get(result).sortedAssets[i + 1].openInterest
                * Get(result).sortedAssets[i + 1].currentPrice
       /\ Get(result).sortedAssets[i].openInterest
            # Get(result).sortedAssets[i + 1].openInterest
  /\ \E i \in 1..(Len(Get(result).sortedAssets) - 1) :
       Get(result).sortedAssets[i].assetIndex > Get(result).sortedAssets[i + 1].assetIndex

(* C12: no cell of the reduced matrix of a successful run is lowData: a    *)
(* cell is lowData exactly when one of its assets has fewer than 5         *)
(* returns, such an asset has an all-lowData row and is dropped, and       *)
(* either every asset with at least 5 returns survives or, when more than  *)
(* 80% of the assets have fewer than 5 returns, none survives.             *)
ShortAssets == {n \in NamesOf(assets) : Len(returnsMap[n]) < 5}
LongAssets == NamesOf(assets) \ ShortAssets

C12_NoLowDataInReduced ==
  (IsDef(fullMatrix) /\ IsDef(result) /\ ~aborted) =>
    LET m == Get(result).matrix
        full == Get(fullMatrix)
    IN /\ \A a \in DOMAIN m : \A b \in DOMAIN m[a] : ~m[a][b].lowData
       /\ \A a, b \in NamesOf(assets) :
            full[a][b].lowData <=> (a \in ShortAssets \/ b \in ShortAssets)
       /\ \A a \in ShortAssets :
            /\ \A b \in NamesOf(assets) : full[a][b].lowData
            /\ a \notin DOMAIN m
       /\ IF 5 * Cardinality(ShortAssets) > 4 * Cardinality(NamesOf(assets))
          THEN DOMAIN m = {}
          ELSE DOMAIN m = LongAssets

C12_Witness ==
  /\ IsDef(fullMatrix) /\ IsDef(result) /\ ~aborted
  /\ LongAssets # {}
  /\ ShortAssets # {}
  /\ Get(result).matrix = EmptyMatrix
  /\ \E a \in LongAssets : ~Get(fullMatrix)[a][a].lowData

====
